---- MODULE Spec2Model ----
(***************************************************************************)
(* Model of getqt.py: classification of Qt build artifacts, their          *)
(* grouping into packages and configurations, the merge of satellite       *)
(* packages and the computation of package dependencies.                   *)
(*                                                                         *)
(* Python strings are sequences of one-character strings, so that          *)
(* lower(), endswith(), splitext() and the "in" test are computed.         *)
(***************************************************************************)
EXTENDS Integers, Sequences, FiniteSets, TLC

\* ------------------------------------------------------------------------
\* Bounds of the model
\* ------------------------------------------------------------------------

\* number of optional files added to the walked tree
MaxExtra == 2

\* length of the base names fed to file_to_package in SpecNames
MaxLen == 3

\* ------------------------------------------------------------------------
\* Python str operations used by the program
\* ------------------------------------------------------------------------

Upper == <<"A","B","C","D","E","F","G","H","I","J","K","L","M","N","O","P","Q","R","S","T","U","V","W","X","Y","Z">>

Lower == <<"a","b","c","d","e","f","g","h","i","j","k","l","m","n","o","p","q","r","s","t","u","v","w","x","y","z">>

\* str.lower() on the upper-case letters
lower_map == [i \in 1..26 |-> Lower[i]]

upper_index(c) == CHOOSE i \in 1..26 : Upper[i] = c

UpperSet == { Upper[i] : i \in 1..26 }

\* one character of str.lower()
lower_char(c) == IF c \in UpperSet THEN lower_map[upper_index(c)] ELSE c

\* str.lower()
lower(s) == [i \in 1..Len(s) |-> lower_char(s[i])]

\* str.startswith(prefix)
startswith(s, prefix) ==
    /\ Len(prefix) <= Len(s)
    /\ SubSeq(s, 1, Len(prefix)) = prefix

\* str.endswith(suffix)
endswith(s, suffix) ==
    /\ Len(suffix) <= Len(s)
    /\ SubSeq(s, Len(s) - Len(suffix) + 1, Len(s)) = suffix

\* the test "sub in s"
contains(s, sub) ==
    \E i \in 1..(Len(s) - Len(sub) + 1) :
        SubSeq(s, i, i + Len(sub) - 1) = sub

\* the first position from i on that holds no blank (Len(s) + 1 if none)
RECURSIVE skip_blanks(_, _)
skip_blanks(s, i) ==
    IF i > Len(s) THEN i
    ELSE IF s[i] = " " THEN skip_blanks(s, i + 1) ELSE i

\* str.rfind(ch) below position i: the last position up to i that holds
\* ch (0 if none)
RECURSIVE rfind(_, _, _)
rfind(s, ch, i) ==
    IF i = 0 THEN 0
    ELSE IF s[i] = ch THEN i ELSE rfind(s, ch, i - 1)

\* the last position up to i that holds no blank (0 if none)
RECURSIVE skip_blanks_back(_, _)
skip_blanks_back(s, i) ==
    IF i = 0 THEN 0
    ELSE IF s[i] = " " THEN skip_blanks_back(s, i - 1) ELSE i

\* str.strip(): blanks removed at both ends
strip(s) == SubSeq(s, skip_blanks(s, 1), skip_blanks_back(s, Len(s)))

\* str.split(' ')[-1]: what follows the last blank
last_field(s) == SubSeq(s, rfind(s, " ", Len(s)) + 1, Len(s))

\* os.path.splitext of a file name: <<root, ext>>, split at the last dot
\* unless only dots precede it
splitext(filename) ==
    LET d == rfind(filename, ".", Len(filename))
    IN  IF d > 0 /\ \E j \in 1..(d - 1) : filename[j] # "."
        THEN <<SubSeq(filename, 1, d - 1), SubSeq(filename, d, Len(filename))>>
        ELSE <<filename, << >> >>

\* ------------------------------------------------------------------------
\* Module constants
\* ------------------------------------------------------------------------

QT_LATEST == <<"5",".","4",".","1">>

DEBUG_SUFFIX == <<"d">>

s_dll == <<".","d","l","l">>

s_pdb == <<".","p","d","b">>

s_lib == <<".","l","i","b">>

s_bin == <<"b","i","n">>

s_libdir == <<"l","i","b">>

s_plugins == <<"p","l","u","g","i","n","s">>

s_qt == <<"q","t">>

s_dash == <<"-">>

vs_version == <<"m","s","v","c","2","0","1","3">>

s_8664 == <<"8","6","6","4">>

s_14C == <<"1","4","C">>

s_machine == <<"m","a","c","h","i","n","e">>

s_dependencies == <<"d","e","p","e","n","d","e","n","c","i","e","s">>

s_Summary == <<"S","u","m","m","a","r","y">>

s_Qt5Designer == <<"Q","t","5","D","e","s","i","g","n","e","r">>

s_Qt5QmlDevTools == <<"Q","t","5","Q","m","l","D","e","v","T","o","o","l","s">>

s_qt5core == <<"q","t","5","c","o","r","e">>

s_qtmain == <<"q","t","m","a","i","n">>

s_qt5bootstrap == <<"q","t","5","b","o","o","t","s","t","r","a","p">>

s_qt5platformsupport == <<"q","t","5","p","l","a","t","f","o","r","m","s","u","p","p","o","r","t">>

s_qt5multimedia == <<"q","t","5","m","u","l","t","i","m","e","d","i","a">>

s_qt5multimediawidgets == <<"q","t","5","m","u","l","t","i","m","e","d","i","a","w","i","d","g","e","t","s">>

s_qt5opengl == <<"q","t","5","o","p","e","n","g","l">>

s_qt5openglextensions == <<"q","t","5","o","p","e","n","g","l","e","x","t","e","n","s","i","o","n","s">>

s_qt5xml == <<"q","t","5","x","m","l">>

s_qt5xmlpatterns == <<"q","t","5","x","m","l","p","a","t","t","e","r","n","s">>

s_qt5quick == <<"q","t","5","q","u","i","c","k">>

s_qt5quickwidgets == <<"q","t","5","q","u","i","c","k","w","i","d","g","e","t","s">>

s_qt5quicktest == <<"q","t","5","q","u","i","c","k","t","e","s","t">>

s_qt5multimediaquick_p == <<"q","t","5","m","u","l","t","i","m","e","d","i","a","q","u","i","c","k","_","p">>

s_qt5quickparticles == <<"q","t","5","q","u","i","c","k","p","a","r","t","i","c","l","e","s">>

s_qt5webkit == <<"q","t","5","w","e","b","k","i","t">>

s_qt5webkitwidgets == <<"q","t","5","w","e","b","k","i","t","w","i","d","g","e","t","s">>

IGNORE_FILES == <<s_Qt5Designer, s_Qt5QmlDevTools>>

FIXED_DEPS == <<s_qt5core>>

\* the items of the dict: <<target, members>>
MERGE_PACKAGES ==
    { <<s_qt5core, <<s_qtmain, s_qt5bootstrap, s_qt5platformsupport>> >>,
      <<s_qt5multimedia, <<s_qt5multimediawidgets>> >>,
      <<s_qt5opengl, <<s_qt5openglextensions>> >>,
      <<s_qt5xml, <<s_qt5xmlpatterns>> >>,
      <<s_qt5quick, <<s_qt5quickwidgets, s_qt5quicktest, s_qt5multimediaquick_p, s_qt5quickparticles>> >>,
      <<s_qt5webkit, <<s_qt5webkitwidgets>> >> }

TYPE_BINARY == "dll"

TYPE_SYMBOL == "pdb"

TYPE_LIBRARY == "lib"

BUILD_DEBUG == "debug"

BUILD_RELEASE == "release"

\* ------------------------------------------------------------------------
\* Naming
\* ------------------------------------------------------------------------

file_to_package(filename) ==
    LET base == lower(splitext(filename)[1])
    IN  IF endswith(base, DEBUG_SUFFIX)
        THEN SubSeq(base, 1, Len(base) - 1)
        ELSE base

\* ------------------------------------------------------------------------
\* The environment: the extracted Qt trees and the dumpbin tool
\* ------------------------------------------------------------------------

\* a file of an extracted tree: root names the tree (the 64 bit or the
\* 32 bit installer), dirpath is the last segment of its directory
File(root, dirpath, filename) ==
    [root |-> root, dirpath |-> dirpath, filename |-> filename]

f_Qt5Core_lib == File("qt64", s_libdir, <<"Q","t","5","C","o","r","e",".","l","i","b">>)

f_qtmain_lib == File("qt64", s_libdir, <<"q","t","m","a","i","n",".","l","i","b">>)

f_Qt5Bootstrap_lib == File("qt64", s_libdir, <<"Q","t","5","B","o","o","t","s","t","r","a","p",".","l","i","b">>)

f_Qt5PlatformSupport_lib == File("qt64", s_libdir, <<"Q","t","5","P","l","a","t","f","o","r","m","S","u","p","p","o","r","t",".","l","i","b">>)

f_Qt5Multimedia_dll == File("qt64", s_bin, <<"Q","t","5","M","u","l","t","i","m","e","d","i","a",".","d","l","l">>)

f_Qt5MultimediaWidgets_dll == File("qt64", s_bin, <<"Q","t","5","M","u","l","t","i","m","e","d","i","a","W","i","d","g","e","t","s",".","d","l","l">>)

f_Qt5OpenGL_dll == File("qt64", s_bin, <<"Q","t","5","O","p","e","n","G","L",".","d","l","l">>)

f_Qt5OpenGLExtensions_lib == File("qt64", s_libdir, <<"Q","t","5","O","p","e","n","G","L","E","x","t","e","n","s","i","o","n","s",".","l","i","b">>)

f_Qt5Xml_dll == File("qt64", s_bin, <<"Q","t","5","X","m","l",".","d","l","l">>)

f_Qt5XmlPatterns_dll == File("qt64", s_bin, <<"Q","t","5","X","m","l","P","a","t","t","e","r","n","s",".","d","l","l">>)

f_Qt5Quick_dll == File("qt64", s_bin, <<"Q","t","5","Q","u","i","c","k",".","d","l","l">>)

f_Qt5QuickWidgets_dll == File("qt64", s_bin, <<"Q","t","5","Q","u","i","c","k","W","i","d","g","e","t","s",".","d","l","l">>)

f_Qt5QuickTest_dll == File("qt64", s_bin, <<"Q","t","5","Q","u","i","c","k","T","e","s","t",".","d","l","l">>)

f_Qt5MultimediaQuick_p_dll == File("qt64", s_bin, <<"Q","t","5","M","u","l","t","i","m","e","d","i","a","Q","u","i","c","k","_","p",".","d","l","l">>)

f_Qt5QuickParticles_dll == File("qt64", s_bin, <<"Q","t","5","Q","u","i","c","k","P","a","r","t","i","c","l","e","s",".","d","l","l">>)

f_Qt5WebKit_dll == File("qt64", s_bin, <<"Q","t","5","W","e","b","K","i","t",".","d","l","l">>)

f_Qt5WebKitWidgets_dll == File("qt64", s_bin, <<"Q","t","5","W","e","b","K","i","t","W","i","d","g","e","t","s",".","d","l","l">>)

f_Qt5Guid_dll == File("qt64", s_bin, <<"Q","t","5","G","u","i","d",".","d","l","l">>)

f_Qt5Guid_pdb == File("qt64", s_bin, <<"Q","t","5","G","u","i","d",".","p","d","b">>)

f_Qt5Core_dll_32 == File("qt32", s_bin, <<"Q","t","5","C","o","r","e",".","d","l","l">>)

f_Qt5Svg_dll == File("qt64", s_bin, <<"Q","t","5","S","v","g",".","d","l","l">>)

f_moc_exe == File("qt64", s_bin, <<"m","o","c",".","e","x","e">>)

f_Qt5Designer_dll == File("qt64", s_bin, <<"Q","t","5","D","e","s","i","g","n","e","r",".","d","l","l">>)

f_qwindows_dll == File("qt64", s_plugins, <<"q","w","i","n","d","o","w","s",".","d","l","l">>)

m_KERNEL32_dll == <<"K","E","R","N","E","L","3","2",".","d","l","l">>

m_Qt5Core_dll == <<"Q","t","5","C","o","r","e",".","d","l","l">>

m_Qt5Cored_dll == <<"Q","t","5","C","o","r","e","d",".","d","l","l">>

m_Qt5Gui_dll == <<"Q","t","5","G","u","i",".","d","l","l">>

m_Qt5Multimedia_dll == <<"Q","t","5","M","u","l","t","i","m","e","d","i","a",".","d","l","l">>

m_Qt5MultimediaWidgets_dll == <<"Q","t","5","M","u","l","t","i","m","e","d","i","a","W","i","d","g","e","t","s",".","d","l","l">>

m_Qt5Quick_dll == <<"Q","t","5","Q","u","i","c","k",".","d","l","l">>

m_Qt5WebKit_dll == <<"Q","t","5","W","e","b","K","i","t",".","d","l","l">>

\* the import table of each dynamic library, as dumpbin lists it
Imports(path) ==
    CASE path = f_Qt5Multimedia_dll -> <<m_Qt5Gui_dll, m_Qt5Core_dll>>
      [] path = f_Qt5MultimediaWidgets_dll -> <<m_Qt5Multimedia_dll, m_Qt5Core_dll>>
      [] path = f_Qt5OpenGL_dll -> <<m_Qt5Core_dll>>
      [] path = f_Qt5Xml_dll -> <<m_Qt5Core_dll>>
      [] path = f_Qt5XmlPatterns_dll -> <<m_Qt5Core_dll>>
      [] path = f_Qt5Quick_dll -> <<m_Qt5Gui_dll, m_Qt5Core_dll>>
      [] path = f_Qt5QuickWidgets_dll -> <<m_Qt5Quick_dll>>
      [] path = f_Qt5QuickTest_dll -> <<m_Qt5Quick_dll>>
      [] path = f_Qt5MultimediaQuick_p_dll -> <<m_Qt5Multimedia_dll>>
      [] path = f_Qt5QuickParticles_dll -> <<m_Qt5Quick_dll>>
      [] path = f_Qt5WebKit_dll -> <<m_Qt5Gui_dll>>
      [] path = f_Qt5WebKitWidgets_dll -> <<m_Qt5WebKit_dll, m_Qt5MultimediaWidgets_dll>>
      [] path = f_Qt5Guid_dll -> <<m_Qt5Cored_dll, m_Qt5Gui_dll>>
      [] path = f_Qt5Core_dll_32 -> <<m_KERNEL32_dll>>
      [] path = f_Qt5Svg_dll -> <<m_KERNEL32_dll>>
      [] path = f_Qt5Designer_dll -> <<m_Qt5Core_dll>>
      [] path = f_qwindows_dll -> <<m_Qt5Gui_dll>>
      [] OTHER -> << >>

l_dump == <<"D","u","m","p"," ","o","f"," ","f","i","l","e">>

l_invalid == <<"L","I","N","K"," ",":"," ","w","a","r","n","i","n","g"," ","L","N","K","4","0","4","8",":"," ","I","n","v","a","l","i","d"," ","f","o","r","m","a","t"," ","f","i","l","e",";"," ","i","g","n","o","r","e","d">>

l_x64 == <<" "," "," "," "," "," "," "," "," "," "," "," ","8","6","6","4"," ","m","a","c","h","i","n","e"," ","(","x","6","4",")">>

l_x86 == <<" "," "," "," "," "," "," "," "," "," "," "," "," ","1","4","C"," ","m","a","c","h","i","n","e"," ","(","x","8","6",")">>

l_sections == <<" "," "," "," "," "," "," "," "," "," "," "," "," "," "," ","6"," ","n","u","m","b","e","r"," ","o","f"," ","s","e","c","t","i","o","n","s">>

l_blank == << >>

l_image == <<" "," ","I","m","a","g","e"," ","h","a","s"," ","t","h","e"," ","f","o","l","l","o","w","i","n","g"," ","d","e","p","e","n","d","e","n","c","i","e","s",":">>

l_summary == <<" "," ","S","u","m","m","a","r","y">>

l_data == <<" "," "," "," "," "," "," "," ","1","0","0","0"," ",".","d","a","t","a">>

s_indent == <<" "," "," "," ">>

\* output of "dumpbin /HEADERS path", split into lines; Qt5Svg.dll of the
\* 64 bit tree is not a valid image and gets no machine line
HEADERS(path) ==
    IF path = f_Qt5Svg_dll
    THEN <<l_dump, l_blank, l_invalid>>
    ELSE IF path.root = "qt64"
         THEN <<l_dump, l_blank, l_x64, l_sections, l_blank, l_summary, l_data>>
         ELSE <<l_dump, l_blank, l_x86, l_sections, l_blank, l_summary, l_data>>

\* output of "dumpbin /DEPENDENTS path", split into lines
DEPENDENTS(path) ==
    <<l_dump, l_blank, l_image, l_blank>>
    \o [i \in 1..Len(Imports(path)) |-> s_indent \o Imports(path)[i]]
    \o <<l_blank, l_summary, l_blank, l_data>>

\* ------------------------------------------------------------------------
\* class Component; a component is the file its _abspath names
\* ------------------------------------------------------------------------

filename(c) == c.filename

extension(c) == splitext(c.filename)[2]

normalized_name(c) == file_to_package(filename(c))

\* Component.type; "raise" stands for the exception of an unknown extension
type(c) ==
    LET ext == extension(c)
    IN  IF ext = s_dll THEN TYPE_BINARY
        ELSE IF ext = s_pdb THEN TYPE_SYMBOL
        ELSE IF ext = s_lib THEN TYPE_LIBRARY
        ELSE "raise"

build(c) ==
    IF extension(c) = s_pdb THEN BUILD_DEBUG
    ELSE IF endswith(splitext(filename(c))[1], DEBUG_SUFFIX) THEN BUILD_DEBUG
    ELSE BUILD_RELEASE

\* the value None of Python, and the mark of a raised exception
None == <<"None">>

Raise == <<"raise">>

\* the .dll and the .lib sibling Component.arch tries for a symbol file
test1(c) == File(c.root, c.dirpath, splitext(c.filename)[1] \o s_dll)

test2(c) == File(c.root, c.dirpath, splitext(c.filename)[1] \o s_lib)

\* "Cant find binary for symbol": fs is the set of the files that exist
cant_find_binary(c, fs) ==
    /\ type(c) = TYPE_SYMBOL
    /\ test1(c) \notin fs
    /\ test2(c) \notin fs

\* the file Component.arch hands to dumpbin
check_name(c, fs) ==
    IF type(c) = TYPE_SYMBOL
    THEN IF test1(c) \in fs THEN test1(c) ELSE test2(c)
    ELSE c

\* the loop of Component.arch over the lines of the tool's output
machine_of(out) ==
    LET hit(i) == LET line == strip(out[i])
                  IN  /\ startswith(line, s_8664) \/ startswith(line, s_14C)
                      /\ contains(line, s_machine)
    IN  IF \E i \in 1..Len(out) : hit(i)
        THEN LET k == CHOOSE i \in 1..Len(out) :
                          hit(i) /\ \A j \in 1..(i - 1) : ~hit(j)
                 word == last_field(strip(out[k]))
             IN  SubSeq(word, 2, Len(word) - 1)
        ELSE None

\* Component.arch
arch(c, fs) ==
    IF type(c) = "raise" \/ cant_find_binary(c, fs)
    THEN Raise
    ELSE machine_of(HEADERS(check_name(c, fs)))

\* DLLComponent._dumpbin_to_deps: the lines between a line holding
\* 'dependencies' and a line holding 'Summary', stripped and lower-cased
RECURSIVE dumpbin_lines(_, _, _)
dumpbin_lines(instr, i, deps_follow) ==
    IF i > Len(instr) THEN << >>
    ELSE LET line == instr[i]
         IN  IF strip(line) = << >>
             THEN dumpbin_lines(instr, i + 1, deps_follow)
             ELSE LET follow == IF contains(line, s_Summary) THEN FALSE ELSE deps_follow
                      here   == IF follow THEN <<lower(strip(line))>> ELSE << >>
                      next   == IF contains(line, s_dependencies) THEN TRUE ELSE follow
                  IN  here \o dumpbin_lines(instr, i + 1, next)

dumpbin_to_deps(instr) == dumpbin_lines(instr, 1, FALSE)

\* DLLComponent.dependencies
dependencies(c) ==
    LET deps == dumpbin_to_deps(DEPENDENTS(c))
    IN  { file_to_package(deps[i]) : i \in { j \in 1..Len(deps) : startswith(deps[j], s_qt) } }

\* ------------------------------------------------------------------------
\* class PackageConfig
\* ------------------------------------------------------------------------

PackageConfig(a, b) ==
    [arch |-> a, build |-> b,
     binaries |-> << >>, symbols |-> << >>, libraries |-> << >>]

\* all with the libraries forgotten
all_without_libraries(config) == config.binaries \o config.symbols

\* PackageConfig.all
all(config) == config.binaries \o config.symbols \o config.libraries

\* add_component with every component filed as a binary
add_component_all_binaries(config, component) ==
    IF type(component) \in {TYPE_BINARY, TYPE_LIBRARY, TYPE_SYMBOL}
    THEN [config EXCEPT !.binaries = Append(@, component)]
    ELSE Raise

\* PackageConfig.add_component: the bucket after the call
add_component(config, component) ==
    LET t == type(component)
    IN  IF t = TYPE_BINARY
        THEN [config EXCEPT !.binaries = Append(@, component)]
        ELSE IF t = TYPE_LIBRARY
        THEN [config EXCEPT !.libraries = Append(@, component)]
        ELSE IF t = TYPE_SYMBOL
        THEN [config EXCEPT !.symbols = Append(@, component)]
        ELSE Raise

\* ------------------------------------------------------------------------
\* class QtPackage; configurations is a Python set of bucket objects,
\* kept here as the sequence of the buckets in the order of their creation
\* ------------------------------------------------------------------------

QtPackage(id, name) ==
    [id |-> lower(id), name |-> lower(name), version |-> QT_LATEST,
     configurations |-> << >>, dependencies |-> {}]

\* get_config without the lookup: a new bucket at every call
get_config_always_new(package, a, b) ==
    <<[package EXCEPT !.configurations = Append(@, PackageConfig(a, b))],
      Len(package.configurations) + 1>>

\* QtPackage.get_config: <<the package after the call, the position of the
\* bucket the call returns>>
get_config(package, a, b) ==
    LET match(i) == /\ package.configurations[i].arch = a
                    /\ package.configurations[i].build = b
        n == Len(package.configurations)
    IN  IF \E i \in 1..n : match(i)
        THEN <<package, CHOOSE i \in 1..n : match(i)>>
        ELSE <<[package EXCEPT !.configurations = Append(@, PackageConfig(a, b))],
               n + 1>>

\* get_config followed by add_component on the bucket it returns
\* (main, from_component and the inner loop of merge_packages)
add_to_config(package, a, b, component) ==
    LET got == get_config(package, a, b)
    IN  [got[1] EXCEPT !.configurations[got[2]] = add_component(@, component)]

\* QtPackage.from_component
from_component(component, fs) ==
    LET id   == normalized_name(component) \o s_dash \o vs_version
        name == normalized_name(component)
    IN  add_to_config(QtPackage(id, name),
                      arch(component, fs), build(component), component)

\* ------------------------------------------------------------------------
\* find_components, merge_packages, compute_dependencies
\* ------------------------------------------------------------------------

\* the test of find_components on one file of the walk
is_component(f) ==
    /\ endswith(f.dirpath, s_bin) \/ endswith(f.dirpath, s_libdir)
    /\ ~ \E i \in 1..Len(IGNORE_FILES) : contains(f.filename, IGNORE_FILES[i])
    /\ \/ endswith(f.filename, s_dll)
       \/ endswith(f.filename, s_pdb)
       \/ endswith(f.filename, s_lib)

\* find_components(inpath, targetpath): walk is the listing of os.walk
find_components(walk) == SelectSeq(walk, is_component)

\* the loop of merge_packages over the components of one bucket
RECURSIVE merge_components(_, _, _, _)
merge_components(target, a, b, comps) ==
    IF comps = << >> THEN target
    ELSE merge_components(add_to_config(target, a, b, Head(comps)),
                          a, b, Tail(comps))

\* the loop of merge_packages over the buckets of one member
RECURSIVE merge_configs(_, _)
merge_configs(target, configs) ==
    IF configs = << >> THEN target
    ELSE LET config == Head(configs)
             got    == get_config(target, config.arch, config.build)
         IN  merge_configs(
                 merge_components(got[1], config.arch, config.build, all(config)),
                 Tail(configs))

\* the registry without one key
without(packagelist, packagename) ==
    [n \in DOMAIN packagelist \ {packagename} |-> packagelist[n]]

\* the loop of merge_packages over the members; target is one object, so
\* the registry entry of targetname changes with it. The result is
\* <<registry, TRUE when an assertion failed>>
RECURSIVE merge_members(_, _, _)
merge_members(packagelist, targetname, members) ==
    IF members = << >> THEN <<packagelist, FALSE>>
    ELSE LET packagename == Head(members)
         IN  IF packagename \notin DOMAIN packagelist
             THEN <<packagelist, TRUE>>
             ELSE LET merged_target ==
                          merge_configs(packagelist[targetname],
                                        packagelist[packagename].configurations)
                      updated == [packagelist EXCEPT ![targetname] = merged_target]
                  IN  merge_members(without(updated, packagename),
                                    targetname, Tail(members))

merge_packages(packagelist, targetname, members) ==
    IF targetname \notin DOMAIN packagelist
    THEN <<packagelist, TRUE>>
    ELSE merge_members(packagelist, targetname, members)

\* the loop of compute_dependencies over the binaries of one bucket
RECURSIVE deps_of_binaries(_, _, _)
deps_of_binaries(deps, binaries, packagename) ==
    IF binaries = << >> THEN deps
    ELSE deps_of_binaries((deps \cup dependencies(Head(binaries))) \ {packagename},
                          Tail(binaries), packagename)

\* the loop of compute_dependencies over the buckets of one package; Python
\* visits the set in no particular order, here the order of creation is
\* taken: the own name is removed after every binary, whichever comes last
RECURSIVE deps_of_configs(_, _, _)
deps_of_configs(deps, configs, packagename) ==
    IF configs = << >> THEN deps
    ELSE deps_of_configs(deps_of_binaries(deps, Head(configs).binaries, packagename),
                         Tail(configs), packagename)

\* compute_dependencies without deps.update(FIXED_DEPS)
compute_dependencies_no_fixed(packagelist) ==
    [packagename \in DOMAIN packagelist |->
        [packagelist[packagename] EXCEPT !.dependencies =
            deps_of_configs({}, packagelist[packagename].configurations,
                            packagename)]]

compute_dependencies(packagelist) ==
    [packagename \in DOMAIN packagelist |->
        [packagelist[packagename] EXCEPT !.dependencies =
            deps_of_configs({FIXED_DEPS[i] : i \in 1..Len(FIXED_DEPS)},
                            packagelist[packagename].configurations,
                            packagename)]]

\* ------------------------------------------------------------------------
\* main, from the loop over qtpaths on
\* ------------------------------------------------------------------------

VARIABLES
    pc,          \* where main stands: "walk", "adding", "merge", "done", "error"
                 \* (SpecNames: "names", "named")
    qt_version,  \* args.qt_version
    tree,        \* the files of the extracted trees, in the order of os.walk
    qtpaths,     \* the trees still to walk
    components,  \* what is left of the list find_components returned
    packages,    \* the registry: name -> package
    merged,      \* the items of MERGE_PACKAGES already applied
    probe,       \* SpecNames: <<base name, extension>> under test
    logical      \* SpecNames: the logical names computed for the probe

vars == <<pc, qt_version, tree, qtpaths, components, packages, merged, probe, logical>>

s_latest == <<"l","a","t","e","s","t">>

s_5_3_2 == <<"5",".","3",".","2">>

\* the files every tree of the model holds: one per package of the merge
\* table (Qt5QuickParticles.dll left out of a short tree), a designer
\* library and a platform plugin
Mandatory(short) ==
    <<f_Qt5Core_lib, f_qtmain_lib, f_Qt5Bootstrap_lib, f_Qt5PlatformSupport_lib,
      f_Qt5Multimedia_dll, f_Qt5MultimediaWidgets_dll,
      f_Qt5OpenGL_dll, f_Qt5OpenGLExtensions_lib,
      f_Qt5Xml_dll, f_Qt5XmlPatterns_dll,
      f_Qt5Quick_dll, f_Qt5QuickWidgets_dll, f_Qt5QuickTest_dll,
      f_Qt5MultimediaQuick_p_dll>>
    \o (IF short THEN << >> ELSE <<f_Qt5QuickParticles_dll>>)
    \o <<f_Qt5WebKit_dll, f_Qt5WebKitWidgets_dll,
         f_Qt5Designer_dll, f_qwindows_dll>>

\* the optional files of a tree
ExtraFiles ==
    { f_Qt5Core_dll_32, f_Qt5Guid_dll, f_Qt5Guid_pdb, f_Qt5Svg_dll, f_moc_exe }

\* sequences of at most n optional files
RECURSIVE Extras(_)
Extras(n) ==
    IF n = 0 THEN { << >> }
    ELSE Extras(n - 1) \cup
         { Append(s, f) : s \in { t \in Extras(n - 1) : Len(t) = n - 1 },
                          f \in ExtraFiles }

Trees ==
    { Mandatory(short) \o extra :
        short \in BOOLEAN, extra \in Extras(MaxExtra) }

\* the files that exist
exists(walk) == { walk[i] : i \in 1..Len(walk) }

Init ==
    /\ pc = "walk"
    /\ qt_version \in {s_latest, s_5_3_2}
    /\ tree \in Trees
    /\ qtpaths = <<"qt64", "qt32">>
    /\ components = << >>
    /\ packages = << >>
    /\ merged = {}
    /\ probe = << >>
    /\ logical = << >>

\* for qtpath in qtpaths: find_components(qtpath, tempdir)
Walk ==
    /\ pc = "walk"
    /\ qtpaths # << >>
    /\ components' = find_components(
                         SelectSeq(tree, LAMBDA f : f.root = Head(qtpaths)))
    /\ qtpaths' = Tail(qtpaths)
    /\ pc' = "adding"
    /\ UNCHANGED <<qt_version, tree, packages, merged, probe, logical>>

\* one turn of the loop over the components: str(component) evaluates type,
\* build and arch, then the component goes to its package
Adding ==
    /\ pc = "adding"
    /\ components # << >>
    /\ LET component == Head(components)
           a == arch(component, exists(tree))
           name == normalized_name(component)
       IN  IF a = Raise
           THEN /\ pc' = "error"
                /\ UNCHANGED <<components, packages>>
           ELSE /\ pc' = "adding"
                /\ components' = Tail(components)
                /\ IF name \in DOMAIN packages
                   THEN packages' =
                            [packages EXCEPT ![name] =
                                add_to_config(@, a, build(component), component)]
                   ELSE LET package ==
                                [from_component(component, exists(tree)) EXCEPT
                                    !.version = IF qt_version = s_latest
                                                THEN QT_LATEST ELSE qt_version]
                        IN  packages' =
                                [n \in DOMAIN packages \cup {package.name} |->
                                    IF n = package.name THEN package
                                    ELSE packages[n]]
    /\ UNCHANGED <<qt_version, tree, qtpaths, merged, probe, logical>>

\* the list of one tree is exhausted
EndWalk ==
    /\ pc = "adding"
    /\ components = << >>
    /\ pc' = IF qtpaths = << >> THEN "merge" ELSE "walk"
    /\ UNCHANGED <<qt_version, tree, qtpaths, components, packages, merged, probe, logical>>

\* one turn of the loop over MERGE_PACKAGES.items(), in the order the dict
\* happens to yield them
Merge ==
    /\ pc = "merge"
    /\ \E item \in MERGE_PACKAGES \ merged :
           \E result \in {merge_packages(packages, item[1], item[2])} :
               /\ packages' = result[1]
               /\ pc' = IF result[2] THEN "error" ELSE "merge"
               /\ merged' = merged \cup {item}
    /\ UNCHANGED <<qt_version, tree, qtpaths, components, probe, logical>>

\* compute_dependencies(packages), after the last merge
Resolve ==
    /\ pc = "merge"
    /\ merged = MERGE_PACKAGES
    /\ packages' = compute_dependencies(packages)
    /\ pc' = "done"
    /\ UNCHANGED <<qt_version, tree, qtpaths, components, merged, probe, logical>>

Next == Walk \/ Adding \/ EndWalk \/ Merge \/ Resolve

Spec == Init /\ [][Next]_vars

\* ------------------------------------------------------------------------
\* file_to_package on its own: a non-empty base name, classified as the
\* release file base + ext and as the debug file base + 'd' + ext
\* ------------------------------------------------------------------------

NameChars == {"q", "5", "d", "D"}

\* the strings over NameChars of length at most n
RECURSIVE Names(_)
Names(n) ==
    IF n = 0 THEN { << >> }
    ELSE Names(n - 1) \cup
         { Append(s, ch) : s \in { t \in Names(n - 1) : Len(t) = n - 1 },
                           ch \in NameChars }

InitNames ==
    /\ pc = "names"
    /\ qt_version = s_latest
    /\ tree = << >>
    /\ qtpaths = << >>
    /\ components = << >>
    /\ packages = << >>
    /\ merged = {}
    /\ probe \in { <<base, ext>> : base \in Names(MaxLen) \ { << >> },
                                  ext \in {s_dll, s_pdb, s_lib} }
    /\ logical = << >>

Classify ==
    /\ pc = "names"
    /\ logical' = <<file_to_package(probe[1] \o probe[2]),
                    file_to_package(probe[1] \o DEBUG_SUFFIX \o probe[2])>>
    /\ pc' = "named"
    /\ UNCHANGED <<qt_version, tree, qtpaths, components, packages, merged, probe>>

NextNames == Classify

SpecNames == InitNames /\ [][NextNames]_vars

\* ------------------------------------------------------------------------
\* Properties
\* ------------------------------------------------------------------------

\* the components a package holds, bucket by bucket
binaries_of(package) ==
    { c \in exists(tree) :
        \E i \in 1..Len(package.configurations) :
            \E k \in 1..Len(package.configurations[i].binaries) :
                package.configurations[i].binaries[k] = c }

\* the collection of the given kind of a bucket
collection_of(config, kind) ==
    IF kind = TYPE_BINARY THEN config.binaries
    ELSE IF kind = TYPE_SYMBOL THEN config.symbols
    ELSE config.libraries

\* the components of the given kind a package holds under the key (a, b):
\* the collections of all its buckets with that key, one after the other
RECURSIVE held_in(_, _, _, _)
held_in(configs, a, b, kind) ==
    IF configs = << >> THEN << >>
    ELSE (IF Head(configs).arch = a /\ Head(configs).build = b
          THEN collection_of(Head(configs), kind) ELSE << >>)
         \o held_in(Tail(configs), a, b, kind)

held(package, a, b, kind) == held_in(package.configurations, a, b, kind)

\* what the listed members hold under (a, b) of the given kind
RECURSIVE held_by_members(_, _, _, _, _)
held_by_members(packagelist, members, a, b, kind) ==
    IF members = << >> THEN << >>
    ELSE held(packagelist[Head(members)], a, b, kind)
         \o held_by_members(packagelist, Tail(members), a, b, kind)

\* two sequences hold the same elements, each as often
same_bag(x, y) ==
    /\ Len(x) = Len(y)
    /\ \A i \in 1..Len(x) :
           Cardinality({ k \in 1..Len(x) : x[k] = x[i] })
           = Cardinality({ k \in 1..Len(y) : y[k] = x[i] })

Archs == {<<"x","6","4">>, <<"x","8","6">>, None}

Builds == {BUILD_DEBUG, BUILD_RELEASE}

Kinds == {TYPE_BINARY, TYPE_SYMBOL, TYPE_LIBRARY}

\* C1: after compute_dependencies no package has its own name among its
\* dependencies, the base package and packages without binaries included.
C1_NoSelfDependency ==
    pc = "done" =>
        \A n \in DOMAIN packages : packages[n].name \notin packages[n].dependencies

\* C2: after ingestion, merges and compute_dependencies every dependency of
\* every package is the name of a package of the registry; the name of a
\* member absorbed by a merge is nobody's dependency.
C2_DependenciesAreRegistered ==
    pc = "done" =>
        \A n \in DOMAIN packages :
            /\ packages[n].dependencies \subseteq DOMAIN packages
            /\ \A item \in MERGE_PACKAGES : \A k \in 1..Len(item[2]) :
                   item[2][k] \notin packages[n].dependencies

\* C3: a merge_packages call whose target and members are all present
\* removes every member from the registry and leaves in the target, for
\* every (arch, build) and every kind, exactly the artifacts the target
\* and the members held there before, each as often as before.
C3_MergeIsUnion ==
    [][ \A item \in MERGE_PACKAGES :
          (pc = "merge" /\ pc' = "merge" /\ item \notin merged /\ merged' = merged \cup {item})
          => /\ \A k \in 1..Len(item[2]) : item[2][k] \notin DOMAIN packages'
             /\ item[1] \in DOMAIN packages'
             /\ \A a \in Archs, b \in Builds, kind \in Kinds :
                    same_bag(held(packages'[item[1]], a, b, kind),
                             held(packages[item[1]], a, b, kind)
                             \o held_by_members(packages, item[2], a, b, kind))
             /\ \A i \in 1..Len(packages'[item[1]].configurations) :
                    /\ packages'[item[1]].configurations[i].arch \in Archs
                    /\ packages'[item[1]].configurations[i].build \in Builds
      ]_vars

\* C3 witness: qt5core has absorbed its three members and holds the four
\* static libraries in its (x64, release) bucket
C3_Witness ==
    /\ pc = "merge"
    /\ \E item \in merged : item[1] = s_qt5core
    /\ s_qtmain \notin DOMAIN packages
    /\ \E i \in 1..Len(packages[s_qt5core].configurations) :
           Len(packages[s_qt5core].configurations[i].libraries) = 4

\* C4: the logical name is lower-case and is the value of file_to_package,
\* and the debug-suffixed file of any base name gets the logical name of
\* the file without the suffix.
C4_DebugAndReleaseAgree ==
    pc = "named" =>
        /\ logical[1] = lower(logical[1])
        /\ logical[1] = file_to_package(probe[1] \o probe[2])
        /\ logical[2] = logical[1]

\* C5: adding a component that its package already holds leaves the keys
\* of the registry, the number of buckets of the package, its id, name and
\* version and every other package as they are; the component is appended
\* to the collection of its kind in the bucket of its arch and build, and
\* nothing else changes in the package.
C5_SecondIngestKeepsStructure ==
    [][ ( /\ pc = "adding" /\ pc' = "adding"
          /\ components # << >> /\ components' = Tail(components)
          /\ normalized_name(Head(components)) \in DOMAIN packages
          /\ \E a \in Archs, b \in Builds, kind \in Kinds :
                 LET had == held(packages[normalized_name(Head(components))], a, b, kind)
                 IN  \E k \in 1..Len(had) : had[k] = Head(components) )
        => LET c == Head(components)
               n == normalized_name(c)
               old == packages[n]
               new == packages'[n]
           IN  /\ DOMAIN packages' = DOMAIN packages
               /\ \A m \in DOMAIN packages \ {n} : packages'[m] = packages[m]
               /\ Len(new.configurations) = Len(old.configurations)
               /\ new.id = old.id /\ new.name = old.name /\ new.version = old.version
               /\ \A i \in 1..Len(old.configurations) :
                      LET oc == old.configurations[i]
                          nc == new.configurations[i]
                      IN  IF oc.arch = arch(c, exists(tree)) /\ oc.build = build(c)
                          THEN nc = add_component(oc, c)
                          ELSE nc = oc
      ]_vars

\* C5 witness: some collection of some bucket holds a component twice
C5_Witness ==
    \E n \in DOMAIN packages : \E i \in 1..Len(packages[n].configurations) :
        LET cs == all(packages[n].configurations[i])
        IN  \E j, k \in 1..Len(cs) : j < k /\ cs[j] = cs[k]

\* C6: no bucket of the registry is keyed by an architecture other than
\* x86 and x64: a component whose dumpbin output has no machine line is
\* refused instead.
C6_NoUnresolvedArchitecture ==
    \A n \in DOMAIN packages : \A i \in 1..Len(packages[n].configurations) :
        packages[n].configurations[i].arch \in Archs \ {None}

\* C7: once a tree is walked that holds, in a bin or lib directory, a file
\* that is not ignored and is no .dll, .pdb or .lib, the run is aborted.
C7_UnknownExtensionAborts ==
    \A i \in 1..Len(tree) :
        ( /\ \A q \in 1..Len(qtpaths) : qtpaths[q] # tree[i].root
          /\ endswith(tree[i].dirpath, s_bin) \/ endswith(tree[i].dirpath, s_libdir)
          /\ ~ \E k \in 1..Len(IGNORE_FILES) : contains(tree[i].filename, IGNORE_FILES[k])
          /\ type(tree[i]) = "raise" )
        => pc = "error"

\* C8: after compute_dependencies qt5core is a dependency of every package
\* other than qt5core.
C8_BaseDependencyEverywhere ==
    pc = "done" =>
        \A n \in DOMAIN packages \ {s_qt5core} : s_qt5core \in packages[n].dependencies

\* C8 witness: the run is complete and qt5webkit, none of whose binaries
\* imports Qt5Core, depends on qt5core
C8_Witness ==
    /\ pc = "done"
    /\ s_qt5webkit \in DOMAIN packages
    /\ binaries_of(packages[s_qt5webkit]) # {}
    /\ \A c \in binaries_of(packages[s_qt5webkit]) : s_qt5core \notin dependencies(c)
    /\ s_qt5core \in packages[s_qt5webkit].dependencies

\* C9: after compute_dependencies the dependencies of a package are
\* qt5core and the normalized 'qt' imports of all its binaries in all its
\* buckets, without the name of the package.
C9_DependenciesAreTheImports ==
    pc = "done" =>
        \A n \in DOMAIN packages :
            packages[n].dependencies =
                ( {s_qt5core}
                  \cup UNION { dependencies(c) : c \in binaries_of(packages[n]) } )
                \ {n}

\* C10: in every state of the registry the buckets of a package have
\* pairwise different (arch, build) keys, and every component sits in the
\* collection of its type of the bucket of its arch and its build.
C10_BucketsAreKeyed ==
    \A n \in DOMAIN packages :
        LET cfgs == packages[n].configurations
        IN  /\ \A i, j \in 1..Len(cfgs) :
                   (cfgs[i].arch = cfgs[j].arch /\ cfgs[i].build = cfgs[j].build) => i = j
            /\ \A i \in 1..Len(cfgs) :
                   LET placed(col, kind) ==
                           \A k \in 1..Len(col) :
                               /\ type(col[k]) = kind
                               /\ arch(col[k], exists(tree)) = cfgs[i].arch
                               /\ build(col[k]) = cfgs[i].build
                   IN  /\ placed(cfgs[i].binaries, TYPE_BINARY)
                       /\ placed(cfgs[i].symbols, TYPE_SYMBOL)
                       /\ placed(cfgs[i].libraries, TYPE_LIBRARY)

\* C10 witness: qt5core holds an x64 and an x86 bucket, and the merge has
\* moved the libraries of its members into the x64 one
C10_Witness ==
    /\ pc = "merge"
    /\ \E item \in merged : item[1] = s_qt5core
    /\ Len(packages[s_qt5core].configurations) >= 2
    /\ \E i \in 1..Len(packages[s_qt5core].configurations) :
           \E k \in 1..Len(packages[s_qt5core].configurations[i].libraries) :
               packages[s_qt5core].configurations[i].libraries[k] = f_qtmain_lib

====
